---- MODULE Spec2Model ----
(***************************************************************************)
(* Model of the Uploader class (chunked, resumable uploads to Azure blob   *)
(* or file-share storage) and of the helpers of utils.js.                  *)
(*                                                                         *)
(* JavaScript is single threaded: code between two awaits runs without     *)
(* interleaving, and the continuation of a settled promise runs in the     *)
(* microtask checkpoint of the event that settled it.  One action of the   *)
(* model is therefore one event (an API call, the settling of one external *)
(* promise, a timer) together with every synchronous continuation it       *)
(* triggers.  The continuations are written as operators from a state      *)
(* record G (one field per variable) to the state record after them.       *)
(***************************************************************************)
EXTENDS Integers, Sequences, FiniteSets, TLC

\* ---------------------------------------------------------------- bounds
Files == {"f1", "f2"}
FileSizes == {3, 5}
MaxSessions == 2
MaxTime == 1
MaxFaults == 1
Speeds == {1, 30}
Sessions == 1..MaxSessions

\* ------------------------------------------------- configuration (scaled)
maxConcurrentUploads == 2
maxChunkSize == 2
minChunkSize == 1
renewalPeriod == 1

\* ------------------------------------------------------------- utils.js
Max(a, b) == IF a >= b THEN a ELSE b
Min(a, b) == IF a <= b THEN a ELSE b

NoConnection == [present |-> FALSE, effectiveType |-> "none", downlink |-> 0]
Connections ==
    {NoConnection} \cup
    [present : {TRUE}, effectiveType : {"4g", "3g", "2g"}, downlink : {1, 10}]

determineConcurrency(defaultConcurrency, conn) ==
    IF conn.present
    THEN IF conn.effectiveType = "4g" /\ conn.downlink > 5
         THEN defaultConcurrency * 2
         ELSE IF conn.effectiveType = "3g" \/ conn.downlink <= 5
              THEN Max(1, defaultConcurrency \div 2)
              ELSE IF conn.effectiveType = "2g"
                   THEN 1
                   ELSE defaultConcurrency
    ELSE defaultConcurrency

\* lines 86-91, for an uploader constructed with the given chunk-size options
optimalChunkSize(fileSize, minSize, maxSize) ==
    IF fileSize < maxSize
    THEN Max(minSize, fileSize \div 10)
    ELSE maxSize

getOptimalChunkSize(fileSize) == optimalChunkSize(fileSize, minChunkSize, maxChunkSize)

RECURSIVE splitFrom(_, _, _)
splitFrom(start, fileSize, chunkSize) ==
    IF start < fileSize
    THEN LET end == Min(start + chunkSize, fileSize)
         IN <<end - start>> \o splitFrom(end, fileSize, chunkSize)
    ELSE <<>>

\* a loop that pushes file.slice(start, start + chunkSize) without the clamp
RECURSIVE slicesFrom_noClamp(_, _, _)
slicesFrom_noClamp(start, fileSize, chunkSize) ==
    IF start < fileSize
    THEN <<[start |-> start, end |-> start + chunkSize]>>
         \o slicesFrom_noClamp(start + chunkSize, fileSize, chunkSize)
    ELSE <<>>

\* lines 23-27: the slices file.slice(start, end) that the loop pushes
RECURSIVE slicesFrom(_, _, _)
slicesFrom(start, fileSize, chunkSize) ==
    IF start < fileSize
    THEN LET end == Min(start + chunkSize, fileSize)
         IN <<[start |-> start, end |-> end]>> \o slicesFrom(end, fileSize, chunkSize)
    ELSE <<>>

\* the sequence of chunk sizes; chunk index i of the code is position i+1
splitFileIntoChunks(fileSize, chunkSize) == splitFrom(0, fileSize, chunkSize)

Chunks(fileSize) == splitFileIntoChunks(fileSize, getOptimalChunkSize(fileSize))
NumChunks(fileSize) == Len(Chunks(fileSize))
Indices(fileSize) == 0..(NumChunks(fileSize) - 1)
AllIndices == UNION {Indices(z) : z \in FileSizes}

\* ------------------------------------------------------ block identifiers
RECURSIVE String(_)
String(n) == IF n < 10 THEN <<48 + n>> ELSE String(n \div 10) \o <<48 + (n % 10)>>

RECURSIVE padStart(_, _, _)
padStart(s, width, ch) == IF Len(s) >= width THEN s ELSE padStart(<<ch>> \o s, width, ch)

\* base64 of a byte sequence, as the sequence of 6-bit digit values (64 is '=')
RECURSIVE btoa(_)
btoa(bytes) ==
    IF Len(bytes) = 0 THEN <<>>
    ELSE IF Len(bytes) = 1
         THEN <<bytes[1] \div 4, (bytes[1] % 4) * 16, 64, 64>>
    ELSE IF Len(bytes) = 2
         THEN <<bytes[1] \div 4, (bytes[1] % 4) * 16 + bytes[2] \div 16,
                (bytes[2] % 16) * 4, 64>>
    ELSE <<bytes[1] \div 4, (bytes[1] % 4) * 16 + bytes[2] \div 16,
           (bytes[2] % 16) * 4 + bytes[3] \div 64, bytes[3] % 64>>
         \o btoa(SubSeq(bytes, 4, Len(bytes)))

\* line 264: the id under which uploadChunk stages chunk `index`
blockId(index) == btoa(padStart(String(index), 6, 48))

\* lines 270-272: the list finalizeBlobUpload hands to commitBlockList
blockIds(totalChunks) ==
    [k \in 1..totalChunks |-> btoa(padStart(String(k - 1), 6, 48))]

\* ------------------------------------------------------------ the state
VARIABLES
    sess,               \* one record per uploadFile invocation
    resumeData,         \* this.resumeData, per file name
    cancelledFiles,     \* this.cancelledFiles
    pausedFiles,        \* this.pausedFiles
    progressStore,      \* the persisted record per file name
    currentConcurrency, \* this.currentConcurrency
    recoveryTimer,      \* this.recoveryTimer is armed
    storageType,        \* 'blob' or 'file'
    adaptiveConcurrency,
    now,                \* Date.now()
    startTime,          \* this.startTime
    sasToken,           \* time at which this.sasToken was obtained, -1 for null
    dest,               \* the destination object per file name
    completeCount,      \* fileComplete events emitted per file name
    faults,             \* failures of external calls so far
    calc                \* a call of one of the pure helpers: its input and result

vars == <<sess, resumeData, cancelledFiles, pausedFiles, progressStore,
          currentConcurrency, recoveryTimer, storageType, adaptiveConcurrency,
          now, startTime, sasToken, dest, completeCount, faults, calc>>

NoEntry == [present |-> FALSE, inProgress |-> FALSE, fileSize |-> 0]
NoRecord == [present |-> FALSE, fileSize |-> 0, uploadedChunks |-> {}]
NoObject == [written |-> {}, committed |-> FALSE]
EmptyPool == [k \in AllIndices |-> "none"]

IdleSession ==
    [pc |-> "idle", file |-> "f1", size |-> 0, i |-> 0,
     uploadedChunks |-> {}, uploadPool |-> EmptyPool,
     loaded |-> {}, tokenTime |-> 0, staleDispatch |-> FALSE,
     dispatchLimit |-> 0, flagDispatch |-> FALSE,
     commitIds |-> <<>>, error |-> "none", surfaced |-> "none",
     viaResume |-> FALSE, cancelledDuring |-> FALSE, destroyedInLoop |-> FALSE]

\* the state as one record, for the sequential composition of continuations
Cur ==
    [sess |-> sess, resumeData |-> resumeData, cancelledFiles |-> cancelledFiles,
     pausedFiles |-> pausedFiles, progressStore |-> progressStore,
     currentConcurrency |-> currentConcurrency, recoveryTimer |-> recoveryTimer,
     dest |-> dest, completeCount |-> completeCount, sasToken |-> sasToken,
     startTime |-> startTime]

Set(G) ==
    /\ sess' = G.sess
    /\ resumeData' = G.resumeData
    /\ cancelledFiles' = G.cancelledFiles
    /\ pausedFiles' = G.pausedFiles
    /\ progressStore' = G.progressStore
    /\ currentConcurrency' = G.currentConcurrency
    /\ recoveryTimer' = G.recoveryTimer
    /\ dest' = G.dest
    /\ completeCount' = G.completeCount
    /\ sasToken' = G.sasToken
    /\ startTime' = G.startTime
    /\ UNCHANGED <<storageType, adaptiveConcurrency, now, faults, calc>>

\* the same, for an event that is the failure of an external call
SetFault(G) ==
    /\ faults < MaxFaults
    /\ sess' = G.sess
    /\ resumeData' = G.resumeData
    /\ cancelledFiles' = G.cancelledFiles
    /\ pausedFiles' = G.pausedFiles
    /\ progressStore' = G.progressStore
    /\ currentConcurrency' = G.currentConcurrency
    /\ recoveryTimer' = G.recoveryTimer
    /\ dest' = G.dest
    /\ completeCount' = G.completeCount
    /\ sasToken' = G.sasToken
    /\ startTime' = G.startTime
    /\ faults' = faults + 1
    /\ UNCHANGED <<storageType, adaptiveConcurrency, now, calc>>

\* ------------------------------------------------- the upload pool
PoolLen(pool) == Cardinality({k \in AllIndices : pool[k] # "none"})
Outstanding(pool) == {k \in AllIndices : pool[k] = "inflight"}
Settled(pool) == {k \in AllIndices : pool[k] \in {"ok", "failed", "threw"}}
Rejected(pool) == {k \in AllIndices : pool[k] \in {"failed", "threw"}}
Lowest(S) == CHOOSE k \in S : \A j \in S : k <= j
ErrorOf(status) == IF status = "threw" THEN "typeerror" ELSE "chunk"

\* Promise.race(uploadPool) when a promise of the pool has settled already:
\* the first settled promise in array order decides
raceRejects(pool) == pool[Lowest(Settled(pool))] \in {"failed", "threw"}

\* ------------------------------------------------- continuations of uploadFile
\* the catch block of uploadFile: log and call cleanupFile, which first awaits
\* refreshSasToken(fileName)
Catch(G, s, e) ==
    [G EXCEPT !.sess[s].pc = "cleanupToken", !.sess[s].error = e]

\* lines 241-244: emit fileComplete, remove the record and the entry
Complete(G, s) ==
    LET f == G.sess[s].file
    IN [G EXCEPT !.completeCount[f] = @ + 1,
                 !.progressStore[f] = NoRecord,
                 !.resumeData[f] = NoEntry,
                 !.sess[s].pc = "done"]

\* lines 236-239: finalizeBlobUpload calls commitBlockList and awaits it
AfterAll(G, s) ==
    IF storageType = "blob"
    THEN [G EXCEPT !.sess[s].pc = "commit",
                   !.sess[s].commitIds = blockIds(NumChunks(G.sess[s].size))]
    ELSE Complete(G, s)

\* a Promise.all that does not wait for the transfers still in flight
AwaitAll_noWait(G, s) ==
    LET pool == G.sess[s].uploadPool
    IN IF Rejected(pool) # {}
       THEN Catch(G, s, ErrorOf(pool[Lowest(Rejected(pool))]))
       ELSE AfterAll(G, s)

\* line 234: await Promise.all(uploadPool)
AwaitAll(G, s) ==
    LET pool == G.sess[s].uploadPool
    IN IF Rejected(pool) # {}
       THEN Catch(G, s, ErrorOf(pool[Lowest(Rejected(pool))]))
       ELSE IF Outstanding(pool) = {}
            THEN AfterAll(G, s)
            ELSE [G EXCEPT !.sess[s].pc = "all"]

\* lines 196-230: uploadChunk is called (the transfer starts) and the promise
\* is pushed on the pool
Dispatch(G, s, k) ==
    LET S == G.sess[s]
    IN [G EXCEPT !.sess[s].uploadPool[k] = "inflight",
                 !.sess[s].dispatchLimit = G.currentConcurrency,
                 !.sess[s].staleDispatch = @ \/ (now - S.tokenTime >= renewalPeriod),
                 !.sess[s].flagDispatch =
                     @ \/ (S.file \in G.pausedFiles \cup G.cancelledFiles)]

\* lines 177-231: the scheduling loop from index i up to its next await
RECURSIVE LoopFrom(_, _, _)
LoopFrom(G, s, i) ==
    LET S == G.sess[s]
        pool == S.uploadPool
    IN IF i >= NumChunks(S.size)
       THEN AwaitAll([G EXCEPT !.sess[s].i = i], s)
       ELSE IF S.file \in G.pausedFiles
       THEN [G EXCEPT !.sess[s].pc = "paused", !.sess[s].i = i]
       ELSE IF S.file \in G.cancelledFiles
       THEN Catch([G EXCEPT !.sess[s].i = i], s, "cancelled")
       ELSE IF i \in S.uploadedChunks
       THEN LoopFrom(G, s, i + 1)
       ELSE IF PoolLen(pool) >= G.currentConcurrency
       THEN IF Settled(pool) = {}
            THEN [G EXCEPT !.sess[s].pc = "race", !.sess[s].i = i]
            ELSE IF raceRejects(pool)
                 THEN Catch([G EXCEPT !.sess[s].i = i], s,
                            ErrorOf(pool[Lowest(Settled(pool))]))
                 ELSE LoopFrom(Dispatch(G, s, i), s, i + 1)
       ELSE LoopFrom(Dispatch(G, s, i), s, i + 1)

\* a loadProgress that returns the record whatever its fileSize
loadProgress_anySize(G, f, fileSize) == G

\* lines 61-72
loadProgress(G, f, fileSize) ==
    IF G.progressStore[f].present /\ G.progressStore[f].fileSize # fileSize
    THEN [G EXCEPT !.progressStore[f] = NoRecord]
    ELSE G

\* lines 150-164: after the token arrived, up to the pre-create of the file
StartSession(G, s) ==
    LET S == G.sess[s]
        f == S.file
        G1 == loadProgress(G, f, S.size)
        persisted == G1.progressStore[f].uploadedChunks
    IN [G1 EXCEPT !.sess[s].uploadedChunks = persisted,
                  !.sess[s].loaded = persisted,
                  !.resumeData[f] =
                      [present |-> TRUE, inProgress |-> FALSE, fileSize |-> S.size]]

\* lines 93-100 (no line of the class calls it)
checkForSasRenewal(G) ==
    IF now - G.startTime >= renewalPeriod
    THEN [G EXCEPT !.sasToken = now, !.startTime = now]
    ELSE G

\* an adjustment that decreases without the floor
adjusted_noFloor(c, defaultConcurrency, speed) ==
    IF speed < 2 * c
    THEN c - 1
    ELSE IF speed > 5 * c /\ speed > 15 /\ c < defaultConcurrency * 2
         THEN c + 1
         ELSE c

\* lines 307-321: the limit after one sample, from limit c; speed / c < 2 is
\* speed < 2 * c for the positive c of the code
adjusted(c, defaultConcurrency, speed) ==
    LET maxConcurrency == defaultConcurrency * 2
        minConcurrency == 2
    IN IF speed < 2 * c /\ c > minConcurrency
       THEN Max(c - 1, minConcurrency)
       ELSE IF speed > 5 * c /\ speed > 15 /\ c < maxConcurrency
            THEN c + 1
            ELSE c

\* lines 306-333
adjustConcurrency(G, speed) ==
    [G EXCEPT !.currentConcurrency = adjusted(@, maxConcurrentUploads, speed),
              !.recoveryTimer = TRUE]

\* lines 200-228: the transfer of chunk k succeeded and its .then handler runs
Handler(G, s, k, speed) ==
    LET S == G.sess[s]
        f == S.file
        uploadedChunks == S.uploadedChunks \cup {k}
        G1 == [G EXCEPT !.sess[s].uploadedChunks = uploadedChunks,
                        !.dest[f].written = @ \cup {k}]
    IN IF ~G.resumeData[f].present
       THEN [G1 EXCEPT !.sess[s].uploadPool[k] = "threw"]
       ELSE LET G2 == [G1 EXCEPT !.progressStore[f] =
                            [present |-> TRUE, fileSize |-> S.size,
                             uploadedChunks |-> uploadedChunks],
                                 !.sess[s].uploadPool[k] = "ok"]
            IN IF adaptiveConcurrency THEN adjustConcurrency(G2, speed) ELSE G2

\* the reactions of Promise.race / Promise.all to the settling of promise k
Wake(G, s, k) ==
    LET S == G.sess[s]
        status == S.uploadPool[k]
    IN IF S.pc = "race"
       THEN IF status = "ok"
            THEN LoopFrom(Dispatch(G, s, S.i), s, S.i + 1)
            ELSE Catch(G, s, ErrorOf(status))
       ELSE IF S.pc = "all"
       THEN IF status # "ok"
            THEN Catch(G, s, ErrorOf(status))
            ELSE IF Outstanding(S.uploadPool) = {} THEN AfterAll(G, s) ELSE G
       ELSE G

\* lines 20-38: the uploader after its constructor
Constructed ==
    /\ sess = [s \in Sessions |-> IdleSession]
    /\ resumeData = [f \in Files |-> NoEntry]
    /\ cancelledFiles = {}
    /\ pausedFiles = {}
    /\ progressStore = [f \in Files |-> NoRecord]
    /\ \E conn \in Connections :
          currentConcurrency = determineConcurrency(maxConcurrentUploads, conn)
    /\ recoveryTimer = FALSE
    /\ storageType \in {"blob", "file"}
    /\ adaptiveConcurrency \in BOOLEAN
    /\ now = 0
    /\ startTime = 0
    /\ sasToken = -1
    /\ dest = [f \in Files |-> NoObject]
    /\ completeCount = [f \in Files |-> 0]
    /\ faults = 0

NoCalc == [fn |-> "none"]

Init ==
    /\ Constructed
    /\ calc = NoCalc

\* ------------------------------------------------------------- actions
FreeSlots == {s \in Sessions : sess[s].pc = "idle"}

\* lines 137-146: the synchronous part of a call of uploadFile, in slot s
uploadFile(G, s, f, fileSize, resumed) ==
    LET call == [IdleSession EXCEPT !.file = f, !.size = fileSize,
                                    !.viaResume = resumed]
    IN IF G.resumeData[f].present /\ G.resumeData[f].inProgress
       THEN [G EXCEPT !.sess[s] = [call EXCEPT !.pc = "refused"]]
       ELSE [G EXCEPT !.sess[s] = [call EXCEPT !.pc = "resolve"],
                      !.resumeData[f] =
                          [present |-> TRUE, inProgress |-> TRUE,
                           fileSize |-> G.resumeData[f].fileSize]]

UploadFile(f, fileSize) ==
    /\ FreeSlots # {}
    /\ Set(uploadFile(Cur, Lowest(FreeSlots), f, fileSize, FALSE))

\* lines 115-118: uploadFile is called for every file of the list in turn
UploadFiles(f, g, fileSize) ==
    /\ f # g
    /\ Cardinality(FreeSlots) >= 2
    /\ LET s1 == Lowest(FreeSlots)
           s2 == Lowest(FreeSlots \ {s1})
       IN Set(uploadFile(uploadFile(Cur, s1, f, fileSize, FALSE),
                         s2, g, fileSize, FALSE))

\* line 146 settles
ResolveOk(s) ==
    /\ sess[s].pc = "resolve"
    /\ Set([Cur EXCEPT !.sess[s].pc = "token"])

ResolveFail(s) ==
    /\ sess[s].pc = "resolve"
    /\ SetFault([Cur EXCEPT !.sess[s].pc = "rejected", !.sess[s].error = "resolver",
                       !.sess[s].surfaced = "resolver"])

\* line 147 settles; lines 148-175 follow, then the loop or the pre-create
TokenOk(s) ==
    /\ sess[s].pc = "token"
    /\ LET G1 == [Cur EXCEPT !.sasToken = now, !.sess[s].tokenTime = now]
           G2 == StartSession(G1, s)
       IN IF storageType = "file"
          THEN Set([G2 EXCEPT !.sess[s].pc = "create"])
          ELSE Set(LoopFrom(G2, s, 0))

TokenFail(s) ==
    /\ sess[s].pc = "token"
    /\ SetFault([Cur EXCEPT !.sess[s].pc = "rejected", !.sess[s].error = "token",
                       !.sess[s].surfaced = "token"])

\* line 166 settles: the file share object is created anew
CreateOk(s) ==
    /\ sess[s].pc = "create"
    /\ Set(LoopFrom([Cur EXCEPT !.dest[sess[s].file] = NoObject], s, 0))

CreateFail(s) ==
    /\ sess[s].pc = "create"
    /\ SetFault([Cur EXCEPT !.sess[s].pc = "rejected", !.sess[s].error = "create",
                       !.sess[s].surfaced = "create"])

\* uploadChunk of chunk k settles
ChunkOk(s, k, speed) ==
    /\ sess[s].uploadPool[k] = "inflight"
    /\ Set(Wake(Handler(Cur, s, k, speed), s, k))

ChunkFail(s, k) ==
    /\ sess[s].uploadPool[k] = "inflight"
    /\ SetFault(Wake([Cur EXCEPT !.sess[s].uploadPool[k] = "failed"], s, k))

\* commitBlockList settles
CommitOk(s) ==
    /\ sess[s].pc = "commit"
    /\ Set(Complete([Cur EXCEPT !.dest[sess[s].file].committed = TRUE], s))

CommitFail(s) ==
    /\ sess[s].pc = "commit"
    /\ SetFault(Catch(Cur, s, "finalize"))

\* lines 102-113: cleanupFile
CleanupTokenOk(s) ==
    /\ sess[s].pc = "cleanupToken"
    /\ Set([Cur EXCEPT !.sess[s].pc = "cleanupDelete"])

CleanupTokenFail(s) ==
    /\ sess[s].pc = "cleanupToken"
    /\ SetFault([Cur EXCEPT !.sess[s].pc = "failed", !.sess[s].surfaced = "cleanup"])

CleanupDeleteOk(s) ==
    /\ sess[s].pc = "cleanupDelete"
    /\ Set([Cur EXCEPT !.dest[sess[s].file] = NoObject,
                       !.sess[s].pc = "failed",
                       !.sess[s].surfaced = sess[s].error])

CleanupDeleteFail(s) ==
    /\ sess[s].pc = "cleanupDelete"
    /\ SetFault([Cur EXCEPT !.sess[s].pc = "failed",
                       !.sess[s].surfaced = sess[s].error])

ActivePc == {"resolve", "token", "create", "race", "all", "commit",
             "cleanupToken", "cleanupDelete"}

\* cancelledDuring records which invocations a cancelUpload or destroy overlaps
MarkCancelled(F) ==
    [s \in Sessions |->
        IF sess[s].file \in F /\ sess[s].pc \in ActivePc
        THEN [sess[s] EXCEPT !.cancelledDuring = TRUE]
        ELSE sess[s]]

\* destroyedInLoop records which scheduling loops were suspended at line 193
\* when destroy was called
MarkDestroyed ==
    [s \in Sessions |->
        [MarkCancelled(Files)[s] EXCEPT !.destroyedInLoop = @ \/ (sess[s].pc = "race")]]

\* lines 120-133
CancelUpload(f) ==
    /\ resumeData[f].present
    /\ Set([Cur EXCEPT !.cancelledFiles = @ \cup {f},
                       !.progressStore[f] = NoRecord,
                       !.resumeData[f] = NoEntry,
                       !.sess = MarkCancelled({f})])

\* lines 286-293
PauseUpload(f) ==
    /\ resumeData[f].present
    /\ f \notin pausedFiles
    /\ Set([Cur EXCEPT !.pausedFiles = @ \cup {f}])

\* lines 295-304; an entry without a file object makes uploadFile(undefined)
\* throw before it does anything
ResumeUpload(f) ==
    /\ resumeData[f].present
    /\ LET G1 == [Cur EXCEPT !.pausedFiles = @ \ {f}]
       IN IF resumeData[f].fileSize = 0
          THEN f \in pausedFiles /\ Set(G1)
          ELSE /\ FreeSlots # {}
               /\ Set(uploadFile(G1, Lowest(FreeSlots), f, resumeData[f].fileSize, TRUE))

\* lines 335-357
Destroy ==
    /\ \E f \in Files : resumeData[f].present
    /\ Set([Cur EXCEPT !.recoveryTimer = FALSE,
                       !.sess = MarkDestroyed,
                       !.resumeData = [f \in Files |-> NoEntry],
                       !.pausedFiles = {},
                       !.cancelledFiles = {}])

\* lines 325-331: the recovery timer fires
RecoveryTimerFires ==
    /\ recoveryTimer
    /\ Set([Cur EXCEPT !.currentConcurrency =
                           IF @ < maxConcurrentUploads * 2 THEN @ + 1 ELSE @,
                       !.recoveryTimer = FALSE])

Tick ==
    /\ now < MaxTime
    /\ now' = now + 1
    /\ UNCHANGED <<sess, resumeData, cancelledFiles, pausedFiles, progressStore,
                   currentConcurrency, recoveryTimer, storageType,
                   adaptiveConcurrency, startTime, sasToken, dest, completeCount,
                   faults, calc>>

\* the events of a session: the settling of one of its external promises
Succeed ==
    \/ \E s \in Sessions : ResolveOk(s)
    \/ \E s \in Sessions : TokenOk(s)
    \/ \E s \in Sessions : CreateOk(s)
    \/ \E s \in Sessions, k \in AllIndices, v \in Speeds : ChunkOk(s, k, v)
    \/ \E s \in Sessions : CommitOk(s)

Recover ==
    \/ \E s \in Sessions : CleanupTokenOk(s)
    \/ \E s \in Sessions : CleanupDeleteOk(s)

Fail ==
    \/ \E s \in Sessions : ResolveFail(s)
    \/ \E s \in Sessions : TokenFail(s)
    \/ \E s \in Sessions : CreateFail(s)
    \/ \E s \in Sessions, k \in AllIndices : ChunkFail(s, k)
    \/ \E s \in Sessions : CommitFail(s)
    \/ \E s \in Sessions : CleanupTokenFail(s)
    \/ \E s \in Sessions : CleanupDeleteFail(s)

\* One file name under every call of the API; the limit is the one of a slow
\* connection and is not adapted.
SoloFiles == {"f1"}

InitSolo ==
    /\ Init
    /\ ~adaptiveConcurrency
    /\ currentConcurrency < maxConcurrentUploads

Next ==
    \/ \E f \in SoloFiles, z \in FileSizes : UploadFile(f, z)
    \/ Succeed
    \/ Recover
    \/ Fail
    \/ \E f \in SoloFiles : CancelUpload(f)
    \/ \E f \in SoloFiles : PauseUpload(f)
    \/ \E f \in SoloFiles : ResumeUpload(f)
    \/ Destroy

Spec == InitSolo /\ [][Next]_vars

\* Several files at once, every initial limit, adaptive concurrency on or off.
LargestSize == CHOOSE z \in FileSizes : \A y \in FileSizes : y <= z

NextBatch ==
    \/ \E f \in Files : UploadFile(f, LargestSize)
    \/ \E f, g \in Files : UploadFiles(f, g, LargestSize)
    \/ Succeed
    \/ Recover
    \/ \E s \in Sessions, k \in AllIndices : ChunkFail(s, k)
    \/ RecoveryTimerFires

SpecBatch == Init /\ [][NextBatch]_vars

\* The clock runs: one file, the stage-and-commit backend.
InitClock ==
    /\ InitSolo
    /\ storageType = "blob"

NextClock ==
    \/ \E f \in SoloFiles, z \in FileSizes : UploadFile(f, z)
    \/ Succeed /\ storageType = "blob"
    \/ Tick

SpecClock == InitClock /\ [][NextClock]_vars

\* Pause and resume of one upload on a reliable network: uploadFile once, then
\* pauseUpload once, then resumeUpload once; no call fails.
NextPause ==
    \/ \E f \in SoloFiles, z \in FileSizes :
          FreeSlots = Sessions /\ UploadFile(f, z)
    \/ \E f \in SoloFiles :
          (\A s \in Sessions : ~sess[s].viaResume) /\ PauseUpload(f)
    \/ \E f \in SoloFiles : f \in pausedFiles /\ ResumeUpload(f)
    \/ Succeed
    \/ Recover

SpecPause == InitSolo /\ [][NextPause]_vars

\* The pure helpers on their own: one call of getOptimalChunkSize and
\* splitFileIntoChunks, of determineConcurrency, or a run of adjustConcurrency
\* samples, for an uploader constructed with the options of the input.
MaxPlanSize == 9
MaxChunkBound == 4
MaxDefault == 5
MaxSamples == 3
CalcSpeeds == {0, 1, 5, 9, 10, 15, 16, 25, 26, 30, 51, 60}
CalcConnections ==
    {NoConnection} \cup
    [present : {TRUE}, effectiveType : {"4g", "3g", "2g", "slow-2g"},
     downlink : {0, 1, 5, 6, 10}]

PlanInputs ==
    [fn : {"plan"}, done : {FALSE}, fileSize : 0..MaxPlanSize,
     minSize : 1..MaxChunkBound, maxSize : 1..MaxChunkBound,
     chunkSize : {0}, slices : {<<>>}]
    \cup
    [fn : {"plan"}, done : {FALSE}, fileSize : {25, 30, 39},
     minSize : {1, 2}, maxSize : {40}, chunkSize : {0}, slices : {<<>>}]
    \cup
    [fn : {"plan"}, done : {FALSE}, fileSize : {45000000, 3000000},
     minSize : {1048576}, maxSize : {4194304}, chunkSize : {0}, slices : {<<>>}]

AdjustInputs ==
    [fn : {"adjust"}, default : 1..MaxDefault, limit : 1..(2 * MaxDefault + 1),
     before : {0}, speed : {0}, samples : {0}]

DetermineInputs ==
    [fn : {"determine"}, done : {FALSE}, default : 1..MaxDefault,
     conn : CalcConnections, limit : {0}]

InitCalc ==
    /\ Constructed
    /\ ~adaptiveConcurrency
    /\ storageType = "blob"
    /\ currentConcurrency = maxConcurrentUploads
    /\ \/ calc \in {c \in PlanInputs : c.minSize <= c.maxSize}
       \/ calc \in {c \in AdjustInputs : c.limit <= 2 * c.default + 1}
       \/ calc \in DetermineInputs

UploaderIdle ==
    UNCHANGED <<sess, resumeData, cancelledFiles, pausedFiles, progressStore,
                currentConcurrency, recoveryTimer, storageType,
                adaptiveConcurrency, now, startTime, sasToken, dest,
                completeCount, faults>>

\* lines 158-159 of uploadFile
PlanChunks ==
    /\ calc.fn = "plan"
    /\ ~calc.done
    /\ LET chunkSize == optimalChunkSize(calc.fileSize, calc.minSize, calc.maxSize)
       IN calc' = [calc EXCEPT !.done = TRUE,
                               !.chunkSize = chunkSize,
                               !.slices = slicesFrom(0, calc.fileSize, chunkSize)]
    /\ UploaderIdle

\* line 222: one speed sample reaches adjustConcurrency
AdjustSample(speed) ==
    /\ calc.fn = "adjust"
    /\ calc.samples < MaxSamples
    /\ calc' = [calc EXCEPT !.before = calc.limit,
                            !.speed = speed,
                            !.samples = @ + 1,
                            !.limit = adjusted(calc.limit, calc.default, speed)]
    /\ UploaderIdle

\* line 22 of the constructor
DetermineLimit ==
    /\ calc.fn = "determine"
    /\ ~calc.done
    /\ calc' = [calc EXCEPT !.done = TRUE,
                            !.limit = determineConcurrency(calc.default, calc.conn)]
    /\ UploaderIdle

NextCalc ==
    \/ PlanChunks
    \/ \E v \in CalcSpeeds : AdjustSample(v)
    \/ DetermineLimit

SpecCalc == InitCalc /\ [][NextCalc]_vars

\* ------------------------------------------------------------- the claims
Dispatched(s) == {k \in AllIndices : sess[s].uploadPool[k] # "none"}
InFlight(s) == Outstanding(sess[s].uploadPool)
Used == {s \in Sessions : sess[s].pc # "idle"}
Active == {s \in Sessions : sess[s].pc \in ActivePc}

RECURSIVE SumInFlight(_)
SumInFlight(S) ==
    IF S = {} THEN 0
    ELSE LET s == CHOOSE t \in S : TRUE
         IN Cardinality(InFlight(s)) + SumInFlight(S \ {s})

\* C1: in every state the transfers of a session that are dispatched and not
\* settled number at most the concurrency limit read at its latest dispatch.
C1_PoolBounded ==
    \A s \in Sessions :
        Dispatched(s) # {} => Cardinality(InFlight(s)) <= sess[s].dispatchLimit

\* C2: the transfers in flight over all sessions together never exceed
\* currentConcurrency; stated for the states in which no transfer has settled
\* yet, where neither a settled pool entry nor an adaptation of the limit plays.
C2_SharedLimit ==
    (\A s \in Sessions : Settled(sess[s].uploadPool) = {})
        => SumInFlight(Sessions) <= currentConcurrency

\* C3: at most one invocation of uploadFile is between its start and its
\* terminal state for a file name: a call made meanwhile is refused (the
\* invocations that a cancelUpload or a destroy has overlapped are left out).
C3_OneLoopPerFile ==
    \A s, t \in Active :
        /\ sess[s].file = sess[t].file
        /\ ~sess[s].cancelledDuring
        /\ ~sess[t].cancelledDuring
        => s = t

\* C4: a session dispatches exactly the indices of its plan that are not in
\* the record it loaded; a record of another file size is removed and counts
\* as absent; no index of a record of the same size is transferred again.
C4_Step ==
    \A s \in Sessions :
        LET S == sess[s]
            T == sess'[s]
            r == progressStore[T.file]
            newly == {k \in AllIndices :
                         S.uploadPool[k] = "none" /\ T.uploadPool[k] # "none"}
            dispatched == {k \in AllIndices : T.uploadPool[k] # "none"}
        IN /\ (S.pc = "token" /\ T.pc \notin {"token", "rejected"}) =>
                  IF r.present /\ r.fileSize = S.size
                  THEN T.loaded = r.uploadedChunks
                  ELSE T.loaded = {} /\ ~progressStore'[T.file].present
           /\ newly \cap T.loaded = {}
           /\ newly \subseteq Indices(T.size)
           /\ T.i = NumChunks(T.size) =>
                  dispatched = Indices(T.size) \ T.loaded

C4_ResumeSkipsLoaded == [][C4_Step]_vars

C4_Witness ==
    \E s \in Sessions :
        /\ sess[s].pc = "done"
        /\ sess[s].loaded # {}
        /\ Dispatched(s) # {}
        /\ Dispatched(s) = Indices(sess[s].size) \ sess[s].loaded

\* C5: uploadFile, then pauseUpload, then resumeUpload, nothing failing: once
\* every invocation has ended and no transfer is in flight, fileComplete was
\* emitted exactly once and the record and the entry of the file are gone.
C5_PauseResumeCompletes ==
    \A s \in Sessions :
        (sess[s].viaResume /\ Active = {} /\ \A t \in Sessions : InFlight(t) = {})
            => /\ completeCount[sess[s].file] = 1
               /\ ~progressStore[sess[s].file].present
               /\ ~resumeData[sess[s].file].present

\* C6: an uploadFile that follows a cancelUpload is not aborted by that
\* cancellation: only an invocation that a cancel overlapped ends cancelled.
C6_FreshAfterCancel ==
    \A s \in Sessions : sess[s].error = "cancelled" => sess[s].cancelledDuring

\* C7: when a session fails on a chunk transfer or on the finalize call, the
\* persisted record holds every index it had loaded or transferred (every
\* upload so far was of the same file size, and no cancel overlapped it).
C7_Step ==
    \A s \in Sessions :
        LET T == sess'[s]
            r == progressStore'[T.file]
            kept == IF r.present /\ r.fileSize = T.size THEN r.uploadedChunks ELSE {}
        IN (/\ sess[s].pc # "cleanupToken"
            /\ T.pc = "cleanupToken"
            /\ T.error \in {"chunk", "finalize"}
            /\ ~T.cancelledDuring
            /\ \A t \in Sessions : sess'[t].pc # "idle" => sess'[t].size = T.size)
           => {k \in AllIndices : T.uploadPool[k] = "ok"} \cup T.loaded \subseteq kept

C7_RecordSurvivesFailure == [][C7_Step]_vars

\* C8: when the only invocation of uploadFile so far has ended in failure, the
\* in-memory entry of its file is removed.
C8_EntryRemovedOnFailure ==
    \A s \in Sessions :
        (/\ sess[s].pc \in {"failed", "rejected"}
         /\ \A t \in Sessions \ {s} : sess[t].pc = "idle")
        => ~resumeData[sess[s].file].present

\* C9: with the stage-and-commit backend commitBlockList is called only when
\* every index of the plan is in the uploaded set and every dispatched transfer
\* has settled successfully, with the staged ids of 0..N-1 in index order;
\* fileComplete and the removal of record and entry follow its success only.
C9_AtCommit ==
    \A s \in Sessions :
        (storageType = "blob" /\ sess[s].pc = "commit") =>
            /\ sess[s].uploadedChunks = Indices(sess[s].size)
            /\ \A k \in AllIndices : sess[s].uploadPool[k] \in {"none", "ok"}
            /\ Len(sess[s].commitIds) = NumChunks(sess[s].size)
            /\ \A k \in Indices(sess[s].size) : sess[s].commitIds[k + 1] = blockId(k)
            /\ \A j, k \in Indices(sess[s].size) :
                   j # k => sess[s].commitIds[j + 1] # sess[s].commitIds[k + 1]

C9_Step ==
    storageType = "blob" =>
        /\ \A f \in Files :
               completeCount'[f] # completeCount[f] =>
                   \E s \in Sessions :
                       /\ sess[s].file = f
                       /\ sess[s].pc = "commit"
                       /\ sess'[s].pc = "done"
        /\ \A s \in Sessions :
               (sess[s].pc # "done" /\ sess'[s].pc = "done") =>
                   /\ sess[s].pc = "commit"
                   /\ dest'[sess[s].file].committed
                   /\ completeCount'[sess[s].file] = completeCount[sess[s].file] + 1
                   /\ ~progressStore'[sess[s].file].present
                   /\ ~resumeData'[sess[s].file].present

C9_CommitAfterAll == []C9_AtCommit /\ [][C9_Step]_vars

C9_Witness ==
    \E s \in Sessions :
        /\ storageType = "blob"
        /\ sess[s].pc = "done"
        /\ Cardinality(Dispatched(s)) >= 2
        /\ completeCount[sess[s].file] = 1

\* C10: no chunk transfer is dispatched with a token that is at least the
\* renewal period old.
C10_TokenFresh ==
    \A s \in Sessions : ~sess[s].staleDispatch

\* C11: a session that failed with error E surfaces E to the caller of
\* uploadFile, whatever happened to the cleanup that followed (its token fetch
\* or its delete call may have failed).
C11_OriginalErrorSurfaces ==
    \A s \in Sessions :
        sess[s].pc = "failed" => sess[s].surfaced = sess[s].error

\* C12: a scheduling loop that was suspended when destroy() was called
\* dispatches no further transfer and ends through the cancellation path
\* (unless one of its transfers failed first); destroy() leaves no recovery
\* timer armed and empties the session map and the paused set.
C12_Ended ==
    \A s \in Sessions :
        (/\ sess[s].destroyedInLoop
         /\ sess[s].pc \in {"done", "cleanupToken", "cleanupDelete", "failed"}
         /\ sess[s].error # "chunk")
        => sess[s].error = "cancelled"

C12_Step ==
    /\ \A s \in Sessions :
           sess[s].destroyedInLoop =>
               \A k \in AllIndices :
                   sess[s].uploadPool[k] = "none" => sess'[s].uploadPool[k] = "none"
    /\ (\E s \in Sessions : sess'[s].destroyedInLoop /\ ~sess[s].destroyedInLoop) =>
           /\ ~recoveryTimer'
           /\ pausedFiles' = {}
           /\ \A f \in Files : ~resumeData'[f].present

C12_DestroyCancels == []C12_Ended /\ [][C12_Step]_vars

\* lines 252-267: uploadChunk calls the client once for its chunk, so the
\* attempts made for chunk k of session s are 1 once it is dispatched
Attempts(s, k) == IF sess[s].uploadPool[k] = "none" THEN 0 ELSE 1

\* the retry count the documentation of the library promises
maxRetries == 3

\* C13: a session fails on a chunk transfer only when all maxRetries attempts
\* of some chunk have failed; one failed attempt does not abort the session.
C13_ChunkRetried ==
    \A s \in Sessions :
        sess[s].error = "chunk" =>
            \E k \in AllIndices :
                /\ sess[s].uploadPool[k] = "failed"
                /\ Attempts(s, k) >= maxRetries

Length(slice) == slice.end - slice.start

RECURSIVE SumLength(_)
SumLength(slices) ==
    IF slices = <<>> THEN 0 ELSE Length(Head(slices)) + SumLength(Tail(slices))

\* C14: for every file size and every 0 < minChunkSize <= maxChunkSize the
\* chunk size is max(minChunkSize, floor(fileSize / 10)) when the file is
\* smaller than maxChunkSize and maxChunkSize otherwise; chunk i starts at
\* i * chunkSize, the chunks are contiguous from offset 0 and do not overlap,
\* only the last may be shorter, and the lengths sum to the file size.
C14_ChunkPlan ==
    (calc.fn = "plan" /\ calc.done) =>
        LET n == Len(calc.slices)
            size == calc.fileSize
        IN /\ calc.chunkSize =
                  IF size < calc.maxSize
                  THEN (IF size \div 10 > calc.minSize THEN size \div 10 ELSE calc.minSize)
                  ELSE calc.maxSize
           /\ \A i \in 1..n :
                  /\ calc.slices[i].start = (i - 1) * calc.chunkSize
                  /\ calc.slices[i].start < calc.slices[i].end
                  /\ i < n => /\ Length(calc.slices[i]) = calc.chunkSize
                              /\ calc.slices[i].end = calc.slices[i + 1].start
                  /\ Length(calc.slices[i]) <= calc.chunkSize
                  /\ Length(calc.slices[i]) = splitFileIntoChunks(size, calc.chunkSize)[i]
           /\ n = Len(splitFileIntoChunks(size, calc.chunkSize))
           /\ n > 0 => calc.slices[n].end = size
           /\ n = 0 <=> size = 0
           /\ SumLength(calc.slices) = size
           /\ (size = 45000000 /\ calc.maxSize = 4194304) =>
                  n = 11 /\ Length(calc.slices[n]) = 3056960
           /\ (size = 3000000 /\ calc.minSize = 1048576 /\ calc.maxSize = 4194304) =>
                  [i \in 1..n |-> Length(calc.slices[i])] = <<1048576, 1048576, 902848>>

C14_Witness ==
    /\ calc.fn = "plan"
    /\ calc.done
    /\ calc.fileSize < calc.maxSize
    /\ calc.chunkSize = calc.fileSize \div 10
    /\ Len(calc.slices) > 10
    /\ Length(calc.slices[Len(calc.slices)]) < calc.chunkSize

\* C15: one adjustment with sample s from limit c and default d gives c - 1 if
\* s / c < 2 and c > 2, otherwise c + 1 if s / c > 5 and s > 15 and c < 2d,
\* otherwise c; from c = 5, d = 5 a sample 30 gives 6 and a sample 5 gives 4,
\* and samples of 5 never take a limit of 2 or more below 2.
C15_Step ==
    (calc.fn = "adjust" /\ calc'.samples = calc.samples + 1) =>
        LET c == calc.limit
            d == calc.default
            s == calc'.speed
        IN /\ calc'.limit =
                  IF s < 2 * c /\ c > 2 THEN c - 1
                  ELSE IF s > 5 * c /\ s > 15 /\ c < 2 * d THEN c + 1
                  ELSE c
           /\ (c = 5 /\ d = 5 /\ s = 30) => calc'.limit = 6
           /\ (c = 5 /\ d = 5 /\ s = 5) => calc'.limit = 4
           /\ (s = 5 /\ c >= 2) => calc'.limit >= 2

C15_AdjustmentRule == [][C15_Step]_vars

C15_Witness ==
    /\ calc.fn = "adjust"
    /\ calc.default = 5
    /\ calc.samples = 3
    /\ calc.speed = 5
    /\ calc.before = 2
    /\ calc.limit = 2

\* C16: the initial limit is 1 whenever the effective connection type is 2g,
\* for every default and every downlink; it is 2 * default for 4g with
\* downlink > 5, max(1, floor(default / 2)) for 3g, and the default when the
\* browser gives no connection information.
C16_InitialLimit ==
    (calc.fn = "determine" /\ calc.done) =>
        LET d == calc.default
            half == IF d \div 2 >= 1 THEN d \div 2 ELSE 1
        IN /\ (calc.conn.present /\ calc.conn.effectiveType = "2g") => calc.limit = 1
           /\ (calc.conn.present /\ calc.conn.effectiveType = "4g"
                  /\ calc.conn.downlink > 5) => calc.limit = 2 * d
           /\ (calc.conn.present /\ calc.conn.effectiveType = "3g") => calc.limit = half
           /\ ~calc.conn.present => calc.limit = d

\* C17: a scheduling loop dispatches no transfer while the paused or the
\* cancelled flag of its file is set, also when the flag was set while the
\* loop was suspended waiting for a free pool slot.
C17_NoDispatchUnderFlag ==
    \A s \in Sessions : ~sess[s].flagDispatch

\* C18: when the paused and the cancelled flag of a file are both set at a
\* scheduling check, the session does not return quietly as paused (it aborts
\* with the cancellation error and runs cleanup).
C18_Step ==
    \A s \in Sessions :
        (sess[s].pc # "paused" /\ sess'[s].pc = "paused")
            => sess'[s].file \notin cancelledFiles'

C18_CancelBeforePause == [][C18_Step]_vars

\* C19: across start, chunk completions, pause and resume the persisted record
\* of a file only grows: each write holds every index of the write before it
\* (until completion removes the record), also when a transfer dispatched
\* before the pause completes after the resumed session has started.
C19_Step ==
    \A f \in Files :
        (progressStore[f].present /\ progressStore'[f].present)
            => progressStore[f].uploadedChunks \subseteq progressStore'[f].uploadedChunks

C19_ProgressGrows == [][C19_Step]_vars

\* C20: when fileComplete is emitted for a file, every chunk index of the plan
\* has been written to the destination object since that object was last
\* deleted by cleanup or created anew at a session start; stated for a session
\* that skipped the indices of a persisted record while every other invocation
\* had returned.
C20_Step ==
    \A s \in Sessions :
        (/\ sess[s].pc # "done"
         /\ sess'[s].pc = "done"
         /\ sess'[s].loaded # {}
         /\ \A t \in Sessions \ {s} : sess'[t].pc \in {"idle", "paused"})
        => Indices(sess'[s].size) \subseteq dest'[sess'[s].file].written

C20_CompleteHoldsAllChunks == [][C20_Step]_vars

\* C21: once fileComplete has been emitted for a file and no upload of it is
\* started afterwards, no second fileComplete is emitted for it and cleanup
\* does not delete its destination object: not through a loop or a transfer
\* that was started before the completion and settles after it.
C21_Step ==
    \A f \in Files :
        (/\ completeCount[f] >= 1
         /\ \A s \in Sessions : sess[s].pc = "idle" => sess'[s].pc = "idle")
        => /\ completeCount'[f] = completeCount[f]
           /\ ~ \E s \in Sessions :
                  /\ sess[s].file = f
                  /\ sess[s].pc = "cleanupDelete"
                  /\ sess'[s].pc = "failed"
                  /\ dest[f] # NoObject
                  /\ dest'[f] = NoObject

C21_CompletionIsFinal == [][C21_Step]_vars

\* under SpecPause no invocation starts once fileComplete has been emitted
C21_NoLaterStart ==
    [][\A s \in Sessions :
          (sess[s].pc = "idle" /\ sess'[s].pc # "idle")
              => completeCount'[sess'[s].file] = 0]_vars

====
